---- MODULE Spec2Model ----
(***************************************************************************)
(* WriteRight (src/bot.py): a Telegram bot that keeps one analysis mode    *)
(* per user in context.user_data, builds a prompt from the mode and the    *)
(* user's text, calls the generative model, formats the answer and sends   *)
(* it back in messages of at most 4000 characters.                         *)
(*                                                                         *)
(* Strings are sequences of one-character strings.  The fixed texts the    *)
(* bot sends (greeting, confirmations, placeholder, apology) and the fixed *)
(* parts of the prompt template are kept as single elements, since only    *)
(* their identity matters.                                                 *)
(*                                                                         *)
(* analyze_text is a coroutine: it is cut at its await points, one action  *)
(* per resumption.  The call of the model is synchronous, so task          *)
(* selection, prompt, model call and formatting are one step.  The         *)
(* transport is assumed to be up: a plain-text call on an existing message *)
(* succeeds, a call on a deleted message raises, and a call with           *)
(* parse_mode="Markdown" is accepted or rejected by Telegram.              *)
(***************************************************************************)
EXTENDS Integers, Sequences, FiniteSets, TLC

VARIABLES user_data, reply, analysis

vars == <<user_data, reply, analysis>>

\* ---------------------------------------------------------------- bounds
\* longest raw model output of the exhaustive set, counted in pieces
MaxPieces == 4
\* longest user text, in characters
MaxTextLen == 1
\* the long model outputs span up to this many full messages
MaxFull == 2

\* ------------------------------------------------------------- constants
ChunkLimit == 4000

Users == {"u1", "u2"}

Modes == {"check", "rewrite", "explain", "improve"}

None == "None"

NL == "\n"

Whitespace == {" ", NL}

\* the backtick character
BT == "(backtick)"

Fence == <<BT, BT, BT>>

\* the marker "(check mark) CORRECTED TEXT:", 17 characters
Marker ==
  <<"(check-mark)", " ", "C", "O", "R", "R", "E", "C", "T", "E", "D", " ", "T", "E", "X", "T", ":">>

\* ------------------------------------------------------- string helpers
Min(a, b) == IF a < b THEN a ELSE b

\* Python s[i:j] for 0 <= i <= j
Slice(s, i, j) == SubSeq(s, i + 1, Min(j, Len(s)))

\* s[i:]
SliceFrom(s, i) == SubSeq(s, i + 1, Len(s))

\* does the non-empty pat occur in s at (0-based) offset i <= len(s) - len(pat)
MatchAt(s, pat, i) == s[i + 1] = pat[1] /\ SubSeq(s, i + 1, i + Len(pat)) = pat

\* str.find: offset of the first occurrence of pat in s, or -1
Find(s, pat) ==
  LET hits == {i \in 0..(Len(s) - Len(pat)) : MatchAt(s, pat, i)}
  IN IF hits = {} THEN -1 ELSE CHOOSE i \in hits : \A j \in hits : i <= j

\* pat in s
Contains(s, pat) == Find(s, pat) >= 0

RECURSIVE LStrip(_)
\* str.lstrip()
LStrip(s) ==
  IF s # <<>> /\ Head(s) \in Whitespace THEN LStrip(Tail(s)) ELSE s

\* only one trailing whitespace character removed
RStripOnce(s) ==
  IF s # <<>> /\ s[Len(s)] \in Whitespace THEN SubSeq(s, 1, Len(s) - 1) ELSE s

RECURSIVE RStrip(_)
\* str.rstrip()
RStrip(s) ==
  IF s # <<>> /\ s[Len(s)] \in Whitespace THEN RStrip(SubSeq(s, 1, Len(s) - 1)) ELSE s

\* str.strip()
Strip(s) == RStrip(LStrip(s))

\* str.replace(old, new, 1): only the first occurrence
ReplaceFirst(s, old, new) ==
  LET i == Find(s, old)
  IN IF i < 0 THEN s ELSE Slice(s, 0, i) \o new \o SliceFrom(s, i + Len(old))

RECURSIVE Replace(_, _, _)
\* str.replace(old, new): leftmost non-overlapping occurrences
Replace(s, old, new) ==
  LET i == Find(s, old)
  IN IF i < 0 THEN s
     ELSE Slice(s, 0, i) \o new \o Replace(SliceFrom(s, i + Len(old)), old, new)

\* str.split(sep, 1)
Split1(s, sep) ==
  LET i == Find(s, sep)
  IN IF i < 0 THEN <<s>> ELSE <<Slice(s, 0, i), SliceFrom(s, i + Len(sep))>>

\* ------------------------------------------- wrap_corrected_text_block
\* after = parts[1], without the lstrip()
wrap_without_lstrip(output) ==
  IF ~Contains(output, Marker) THEN output
  ELSE
    LET parts == Split1(output, Marker)
        before == parts[1]
        after == parts[2]
        lines == Split1(after, <<NL>>)
        corrected_line == Strip(lines[1])
        wrapped == Fence \o <<NL>> \o corrected_line \o <<NL>> \o Fence
        new_after == IF Len(lines) > 1 THEN wrapped \o <<NL>> \o lines[2] ELSE wrapped
    IN before \o Marker \o <<NL>> \o new_after

\* the newline after the block added whether or not text follows
wrap_always_newline(output) ==
  IF ~Contains(output, Marker) THEN output
  ELSE
    LET parts == Split1(output, Marker)
        before == parts[1]
        after == LStrip(parts[2])
        lines == Split1(after, <<NL>>)
        corrected_line == Strip(lines[1])
        wrapped == Fence \o <<NL>> \o corrected_line \o <<NL>> \o Fence
        new_after == wrapped \o <<NL>> \o (IF Len(lines) > 1 THEN lines[2] ELSE <<>>)
    IN before \o Marker \o <<NL>> \o new_after

wrap_corrected_text_block(output) ==
  IF ~Contains(output, Marker) THEN output
  ELSE
    LET parts == Split1(output, Marker)
        before == parts[1]
        after == LStrip(parts[2])
        lines == Split1(after, <<NL>>)
        corrected_line == Strip(lines[1])
        wrapped == Fence \o <<NL>> \o corrected_line \o <<NL>> \o Fence
        new_after == IF Len(lines) > 1 THEN wrapped \o <<NL>> \o lines[2] ELSE wrapped
    IN before \o Marker \o <<NL>> \o new_after

\* the formatting of the model's answer, lines 192-198
FormatOutput(raw) == wrap_corrected_text_block(Replace(Strip(raw), Fence, <<>>))

\* ------------------------------------------------------------ user_data
EmptyDict == [k \in {} |-> None]

\* d[k] = v
DictSet(d, k, v) == [x \in (DOMAIN d) \cup {k} |-> IF x = k THEN v ELSE d[x]]

\* d.get(k, default)
DictGet(d, k, default) == IF k \in DOMAIN d THEN d[k] ELSE default

\* a read without the default: context.user_data.get("mode")
GetModeNoDefault(d) == DictGet(d, "mode", None)

\* context.user_data.get("mode", "check")
GetMode(d) == DictGet(d, "mode", "check")

\* ------------------------------------------------------- task and prompt
\* the sentences of the first and the last branch exchanged
TaskForSwapped(mode) ==
  IF mode = "check" THEN "Analyze grammar."
  ELSE IF mode = "rewrite" THEN "Rewrite this text clearly and naturally."
  ELSE IF mode = "explain" THEN "Explain grammar rules."
  ELSE IF mode = "improve" THEN "Suggest improvements."
  ELSE "Analyze grammar and correctness."

\* lines 150-160
TaskFor(mode) ==
  IF mode = "check" THEN "Analyze grammar and correctness."
  ELSE IF mode = "rewrite" THEN "Rewrite this text clearly and naturally."
  ELSE IF mode = "explain" THEN "Explain grammar rules."
  ELSE IF mode = "improve" THEN "Suggest improvements."
  ELSE "Analyze grammar."

PromptIntro == "(You are WriteRight, an English writing tutor. Task: )"

PromptTemplate == "(Follow the structure below: ... CORRECTED TEXT: [text] User text: )"

\* the f-string of lines 163-188
BuildPrompt(task, user_text) ==
  <<PromptIntro, task, PromptTemplate>> \o user_text \o <<NL>>

\* ---------------------------------------------------- replies to commands
WelcomeText == "Hello! I'm WriteRight."

HelpText == "WriteRight Commands"

ResetText == "Conversation reset. Default mode: Grammar Check."

ModeSetText(m) ==
  IF m = "check" THEN "Mode set to Grammar Check."
  ELSE IF m = "rewrite" THEN "Mode set to Rewrite."
  ELSE IF m = "explain" THEN "Mode set to Explain."
  ELSE "Mode set to Improve."

\* --------------------------------------------------------------- inputs
RECURSIVE SeqsUpTo(_, _)
\* all sequences of at most n elements of S
SeqsUpTo(S, n) ==
  IF n = 0 THEN {<<>>}
  ELSE LET shorter == SeqsUpTo(S, n - 1)
       IN shorter \cup {Append(s, x) : s \in {t \in shorter : Len(t) = n - 1}, x \in S}

RECURSIVE Flatten(_)
Flatten(ss) == IF ss = <<>> THEN <<>> ELSE Head(ss) \o Flatten(Tail(ss))

TextAlphabet == {"a", " ", BT}

\* the texts a user sends
Texts == SeqsUpTo(TextAlphabet, MaxTextLen)

\* a long run of text whose characters depend on their position
Filler(n) == [i \in 1..n |-> IF i % 7 = 0 THEN "b" ELSE "a"]

Pieces == {<<"a">>, <<" ">>, <<NL>>, <<BT>>, Fence, Marker}

\* every answer made of at most MaxPieces pieces
ShortRaws == {Flatten(ps) : ps \in SeqsUpTo(Pieces, MaxPieces)}

LongLens == {k * ChunkLimit + d : k \in 1..MaxFull, d \in {-1, 0, 1, 1000}}

LongHeads == {<<>>, Fence, Marker \o <<"a", NL>>}

\* answers around and beyond the message limit
LongRaws == {h \o Filler(n) : h \in LongHeads, n \in LongLens}

\* the answers of the model explored together with the commands
SampleRaws ==
  {<<"a">>, Marker \o <<NL, "a", NL, "b">>, Filler(ChunkLimit + 1)}

\* the answers of the model explored exhaustively
RawOutputs == ShortRaws \cup LongRaws \cup SampleRaws

\* ---------------------------------------------------------------- state
IdleAnalysis ==
  [pc |-> "idle", user_text |-> <<>>, mode |-> None, task |-> None,
   prompt |-> <<>>, response |-> "none", raw |-> <<>>, output |-> <<>>, i |-> 0,
   status |-> "none", sent |-> <<>>, logged |-> FALSE]

Init ==
  /\ user_data = [u \in Users |-> EmptyDict]
  /\ reply = [u \in Users |-> None]
  /\ analysis = [u \in Users |-> IdleAnalysis]

\* ------------------------------------------------------ command handlers
start(u) ==
  /\ user_data' = [user_data EXCEPT ![u] = DictSet(@, "mode", "check")]
  /\ reply' = [reply EXCEPT ![u] = WelcomeText]
  /\ UNCHANGED analysis

help_command(u) ==
  /\ reply' = [reply EXCEPT ![u] = HelpText]
  /\ UNCHANGED <<user_data, analysis>>

\* the mode kept in one place shared by all users
mode_command_global(u, m) ==
  /\ user_data' = [v \in Users |-> DictSet(user_data[v], "mode", m)]
  /\ reply' = [reply EXCEPT ![u] = ModeSetText(m)]
  /\ UNCHANGED analysis

\* a handler copied from check_command whose mode was not renamed
mode_command_pasted(u, m) ==
  /\ user_data' = [user_data EXCEPT ![u] = DictSet(@, "mode", "check")]
  /\ reply' = [reply EXCEPT ![u] = ModeSetText(m)]
  /\ UNCHANGED analysis

\* check_command, rewrite_command, explain_command, improve_command
mode_command(u, m) ==
  /\ user_data' = [user_data EXCEPT ![u] = DictSet(@, "mode", m)]
  /\ reply' = [reply EXCEPT ![u] = ModeSetText(m)]
  /\ UNCHANGED analysis

\* clear() without the assignment that follows it
clear_command_only(u) ==
  /\ user_data' = [user_data EXCEPT ![u] = EmptyDict]
  /\ reply' = [reply EXCEPT ![u] = ResetText]
  /\ UNCHANGED analysis

clear_command(u) ==
  /\ user_data' = [user_data EXCEPT ![u] = DictSet(EmptyDict, "mode", "check")]
  /\ reply' = [reply EXCEPT ![u] = ResetText]
  /\ UNCHANGED analysis

\* ---------------------------------------------------------- analyze_text
\* the read written as context.user_data.setdefault("mode", "check")
AnalyzeStartSetDefault(u, text) ==
  /\ analysis[u].pc \in {"idle", "returned", "raised"}
  /\ analysis' = [analysis EXCEPT ![u] =
       [IdleAnalysis EXCEPT !.pc = "placeholder", !.user_text = text,
                            !.mode = GetMode(user_data[u]), !.status = "placeholder"]]
  /\ user_data' = [user_data EXCEPT ![u] = DictSet(@, "mode", GetMode(@))]
  /\ UNCHANGED reply

\* lines 145-148: read the text and the mode, send the placeholder
AnalyzeStart(u, text) ==
  /\ analysis[u].pc \in {"idle", "returned", "raised"}
  /\ analysis' = [analysis EXCEPT ![u] =
       [IdleAnalysis EXCEPT !.pc = "placeholder", !.user_text = text,
                            !.mode = GetMode(user_data[u]), !.status = "placeholder"]]
  /\ UNCHANGED <<user_data, reply>>

\* the apology sent as a new message instead of an edit
ExceptBranchReply(a) ==
  [a EXCEPT !.logged = TRUE, !.sent = Append(@, <<"(apology)">>), !.pc = "returned"]

\* lines 208-210: log, edit the placeholder to the apology
ExceptBranch(a) ==
  IF a.status = "deleted"
  THEN [a EXCEPT !.logged = TRUE, !.pc = "raised"]
  ELSE [a EXCEPT !.logged = TRUE, !.status = "apology", !.pc = "returned"]

\* lines 150-191 with the model call raising
GenerateFails(u) ==
  /\ analysis[u].pc = "placeholder"
  /\ LET task == TaskFor(analysis[u].mode)
         a == [analysis[u] EXCEPT !.task = task,
                                  !.prompt = BuildPrompt(task, analysis[u].user_text),
                                  !.response = "error"]
     IN analysis' = [analysis EXCEPT ![u] = ExceptBranch(a)]
  /\ UNCHANGED <<user_data, reply>>

\* the mode read after the first await instead of before it
GenerateLateRead(u, raw) ==
  /\ analysis[u].pc = "placeholder"
  /\ LET task == TaskFor(GetMode(user_data[u]))
         output == FormatOutput(raw)
         a == [analysis[u] EXCEPT !.task = task,
                                  !.prompt = BuildPrompt(task, analysis[u].user_text),
                                  !.response = "ok",
                                  !.raw = raw,
                                  !.output = output]
     IN IF Len(output) <= ChunkLimit
        THEN \/ analysis' = [analysis EXCEPT ![u] =
                  [a EXCEPT !.status = "result", !.sent = <<output>>, !.pc = "returned"]]
             \/ analysis' = [analysis EXCEPT ![u] = [a EXCEPT !.pc = "except"]]
        ELSE analysis' = [analysis EXCEPT ![u] =
                  [a EXCEPT !.status = "deleted", !.i = 0, !.pc = "send"]]
  /\ UNCHANGED <<user_data, reply>>

\* the multi-part branch without status_msg.delete()
GenerateKeepsPlaceholder(u, raw) ==
  /\ analysis[u].pc = "placeholder"
  /\ LET task == TaskFor(analysis[u].mode)
         output == FormatOutput(raw)
         a == [analysis[u] EXCEPT !.task = task,
                                  !.prompt = BuildPrompt(task, analysis[u].user_text),
                                  !.response = "ok",
                                  !.raw = raw,
                                  !.output = output]
     IN IF Len(output) <= ChunkLimit
        THEN \/ analysis' = [analysis EXCEPT ![u] =
                  [a EXCEPT !.status = "result", !.sent = <<output>>, !.pc = "returned"]]
             \/ analysis' = [analysis EXCEPT ![u] = [a EXCEPT !.pc = "except"]]
        ELSE analysis' = [analysis EXCEPT ![u] = [a EXCEPT !.i = 0, !.pc = "send"]]
  /\ UNCHANGED <<user_data, reply>>

\* lines 150-204 with the model answering raw; Telegram accepts or rejects
\* the Markdown of a single-part result
Generate(u, raw) ==
  /\ analysis[u].pc = "placeholder"
  /\ LET task == TaskFor(analysis[u].mode)
         output == FormatOutput(raw)
         a == [analysis[u] EXCEPT !.task = task,
                                  !.prompt = BuildPrompt(task, analysis[u].user_text),
                                  !.response = "ok",
                                  !.raw = raw,
                                  !.output = output]
     IN IF Len(output) <= ChunkLimit
        THEN \/ analysis' = [analysis EXCEPT ![u] =
                  [a EXCEPT !.status = "result", !.sent = <<output>>, !.pc = "returned"]]
             \/ analysis' = [analysis EXCEPT ![u] = [a EXCEPT !.pc = "except"]]
        ELSE analysis' = [analysis EXCEPT ![u] =
                  [a EXCEPT !.status = "deleted", !.i = 0, !.pc = "send"]]
  /\ UNCHANGED <<user_data, reply>>

\* a slice one character short of the step of the loop
ChunkShort(output, i) == Slice(output, i, i + ChunkLimit - 1)

\* output[i:i+4000]
Chunk(output, i) == Slice(output, i, i + ChunkLimit)

\* lines 205-206: one iteration of the loop over range(0, len(output), 4000)
SendChunk(u, accepted) ==
  /\ analysis[u].pc = "send"
  /\ LET a == analysis[u]
         chunk == Chunk(a.output, a.i)
         next == a.i + ChunkLimit
     IN analysis' = [analysis EXCEPT ![u] =
          IF accepted
          THEN [a EXCEPT !.sent = Append(@, chunk), !.i = next,
                         !.pc = IF next < Len(a.output) THEN "send" ELSE "returned"]
          ELSE [a EXCEPT !.pc = "except"]]
  /\ UNCHANGED <<user_data, reply>>

\* lines 208-210 after a delivery raised
Except(u) ==
  /\ analysis[u].pc = "except"
  /\ analysis' = [analysis EXCEPT ![u] = ExceptBranch(@)]
  /\ UNCHANGED <<user_data, reply>>

\* --------------------------------------------------------- specifications
\* one conversation: every command and message, a sample of model answers
Conv == {"u1"}

Next ==
  \E u \in Conv :
    \/ start(u)
    \/ help_command(u)
    \/ \E m \in Modes : mode_command(u, m)
    \/ clear_command(u)
    \/ \E text \in Texts : AnalyzeStart(u, text)
    \/ GenerateFails(u)
    \/ \E raw \in SampleRaws : Generate(u, raw)
    \/ \E accepted \in BOOLEAN : SendChunk(u, accepted)
    \/ Except(u)

Spec == Init /\ [][Next]_vars

\* one message in the default mode: every model answer
NextFormat ==
  \E u \in Conv :
    \/ AnalyzeStart(u, <<"a">>)
    \/ GenerateFails(u)
    \/ \E raw \in RawOutputs : Generate(u, raw)
    \/ \E accepted \in BOOLEAN : SendChunk(u, accepted)
    \/ Except(u)

SpecFormat == Init /\ [][NextFormat]_vars

\* a stored mode of any value, for the task selection taken alone
StoredModes == Modes \cup {"summarize"}

InitStored ==
  /\ user_data \in [Users -> {EmptyDict} \cup {DictSet(EmptyDict, "mode", v) : v \in StoredModes}]
  /\ \A u \in Users \ Conv : user_data[u] = EmptyDict
  /\ reply = [u \in Users |-> None]
  /\ analysis = [u \in Users |-> IdleAnalysis]

NextStored ==
  \E u \in Conv :
    \/ \E text \in Texts : AnalyzeStart(u, text)
    \/ GenerateFails(u)
    \/ \E raw \in SampleRaws : Generate(u, raw)
    \/ \E accepted \in BOOLEAN : SendChunk(u, accepted)
    \/ Except(u)

SpecStored == InitStored /\ [][NextStored]_vars

\* two conversations, their updates interleaved: every command, one message
\* text and one single-part answer
UpdateFor(u) ==
  \/ start(u)
  \/ help_command(u)
  \/ \E m \in Modes : mode_command(u, m)
  \/ clear_command(u)
  \/ AnalyzeStart(u, <<"a">>)
  \/ GenerateFails(u)
  \/ Generate(u, <<"a">>)
  \/ Except(u)

NextUsers == \E u \in Users : UpdateFor(u)

SpecUsers == Init /\ [][NextUsers]_vars

\* ------------------------------------------------------------------ claims

\* C1: every mode a handler reads, and every mode analyze_text has read, is
\* one of check, rewrite, explain, improve; it is never undefined.
C1_ModeEnumerated ==
  \A u \in Users :
    /\ GetMode(user_data[u]) \in Modes
    /\ analysis[u].pc # "idle" => analysis[u].mode \in Modes

\* C1 witness: a message is being analysed under a mode set by a command
C1_Witness ==
  \E u \in Users : analysis[u].pc = "placeholder" /\ analysis[u].mode = "improve"

\* C2: a /clear step ends with the mode stored and equal to check, and a
\* message handled next (no command in between) reads check.
C2_ClearGivesCheck ==
  [][\A u \in Users :
       /\ clear_command(u) =>
            /\ "mode" \in DOMAIN user_data'[u]
            /\ GetMode(user_data'[u]) = "check"
       /\ (reply[u] = ResetText /\ analysis'[u] # analysis[u]
             /\ analysis'[u].pc = "placeholder")
            => analysis'[u].mode = "check"]_vars

\* C2 witness: /clear was the last command handled after a message had been
\* read in the rewrite mode, and the stored mode is check
C2_Witness ==
  \E u \in Users :
    /\ reply[u] = ResetText
    /\ analysis[u].mode = "rewrite"
    /\ user_data[u] = DictSet(EmptyDict, "mode", "check")

\* C3 as stated: the mode changes only in a step of /check, /rewrite,
\* /explain, /improve or /clear.
C3_Original ==
  [][\A u \in Users :
       GetMode(user_data'[u]) # GetMode(user_data[u])
         => \/ \E m \in Modes : mode_command(u, m)
            \/ clear_command(u)]_vars

\* C3 amended: the mode changes only in a step of /start, /check, /rewrite,
\* /explain, /improve or /clear; a step of analyze_text (successful or not)
\* and /help leave the user's stored data unchanged.
C3_ModeFrame ==
  [][\A u \in Users :
       /\ GetMode(user_data'[u]) # GetMode(user_data[u])
            => \/ start(u)
               \/ \E m \in Modes : mode_command(u, m)
               \/ clear_command(u)
       /\ (analysis'[u] # analysis[u] \/ help_command(u))
            => user_data'[u] = user_data[u]]_vars

\* C3 witness: a message handled in the explain mode has failed and the
\* mode is still explain
C3_Witness ==
  \E u \in Users :
    /\ analysis[u].logged
    /\ analysis[u].mode = "explain"
    /\ user_data[u] = DictSet(EmptyDict, "mode", "explain")

\* C4: a mode-select command stores the mode of its name whatever the mode
\* was; issued again right after itself it changes nothing; /start stores
\* check.
C4_SetModeIdempotent ==
  [][\A u \in Users :
       /\ \A m \in Modes :
            mode_command(u, m) =>
              /\ user_data'[u] = DictSet(EmptyDict, "mode", m)
              /\ reply[u] = ModeSetText(m) => UNCHANGED vars
       /\ start(u) => user_data'[u] = DictSet(EmptyDict, "mode", "check")]_vars

\* C4 witness: /improve was handled after a message had been read in the
\* rewrite mode
C4_Witness ==
  \E u \in Users :
    /\ reply[u] = ModeSetText("improve")
    /\ user_data[u] = DictSet(EmptyDict, "mode", "improve")
    /\ analysis[u].mode = "rewrite"

\* C5: while a user has issued no command, a message is read in the check
\* mode and its prompt carries the task of check.
C5_DefaultCheck ==
  \A u \in Users :
    (reply[u] = None /\ analysis[u].pc # "idle") =>
      /\ analysis[u].mode = "check"
      /\ analysis[u].response # "none" =>
           /\ analysis[u].task = "Analyze grammar and correctness."
           /\ analysis[u].prompt[2] = "Analyze grammar and correctness."

\* C5 witness: the first interaction of a user was a message and it was
\* answered
C5_Witness ==
  \E u \in Users :
    /\ reply[u] = None
    /\ user_data[u] = EmptyDict
    /\ analysis[u].pc = "returned"
    /\ analysis[u].response = "ok"

\* C6: for each of the four modes the prompt carries the task sentence the
\* specification gives for that mode, and the user's text verbatim.
C6_PromptEmbeds ==
  \A u \in Users :
    LET a == analysis[u]
        sentence ==
          CASE a.mode = "check" -> "Analyze grammar and correctness."
            [] a.mode = "rewrite" -> "Rewrite this text clearly and naturally."
            [] a.mode = "explain" -> "Explain the grammar rules used in this sentence."
            [] a.mode = "improve" -> "Suggest improvements to make this writing better."
            [] OTHER -> None
    IN (a.response # "none" /\ a.mode \in Modes) =>
         /\ \E k \in 1..Len(a.prompt) : a.prompt[k] = sentence
         /\ a.user_text = <<>> \/ Contains(a.prompt, a.user_text)

C8_ModelFailureApology ==
  \A u \in Users :
    analysis[u].response = "error" =>
      /\ analysis[u].pc = "returned"
      /\ analysis[u].status = "apology"
      /\ analysis[u].sent = <<>>
      /\ analysis[u].logged

\* C8 witness: a model call has failed
C8_Witness ==
  \E u \in Users : analysis[u].response = "error" /\ analysis[u].mode = "rewrite"

\* C9: every failure while a message is processed ends with the apology
\* shown and no exception leaving analyze_text.
C9_AllFailuresRecovered ==
  \A u \in Users :
    /\ analysis[u].pc # "raised"
    /\ (analysis[u].logged /\ analysis[u].pc = "returned") => analysis[u].status = "apology"

\* C10: the messages that carry a result are at most 4000 characters long,
\* all but the last exactly 4000, they are consecutive slices from the start
\* of the output, and once the handler has returned without a failure they
\* add up to the output, one message sufficing up to 4000 characters.
C10_Chunks ==
  \A u \in Users :
    LET a == analysis[u]
        joined == Flatten(a.sent)
    IN a.response = "ok" =>
         /\ \A k \in 1..Len(a.sent) : Len(a.sent[k]) <= ChunkLimit
         /\ \A k \in 1..(Len(a.sent) - 1) : Len(a.sent[k]) = ChunkLimit
         /\ joined = SubSeq(a.output, 1, Len(joined))
         /\ (a.pc = "returned" /\ ~a.logged) =>
              /\ joined = a.output
              /\ Len(a.sent) >= 1
              /\ Len(a.output) <= ChunkLimit => Len(a.sent) = 1

\* C10 witness: an output of 9000 characters was delivered as messages of
\* 4000, 4000 and 1000 characters
C10_Witness ==
  \E u \in Users :
    /\ analysis[u].pc = "returned"
    /\ ~analysis[u].logged
    /\ Len(analysis[u].output) = 2 * ChunkLimit + 1000
    /\ Len(analysis[u].sent) = 3
    /\ Len(analysis[u].sent[3]) = 1000


\* C11: an output over 4000 characters has its placeholder deleted before any
\* part is sent and its parts sent one per loop iteration as new messages; a
\* shorter output is delivered by editing the placeholder, which is never
\* deleted, and no other message carries a result.
C11_PlaceholderHandling ==
  \A u \in Users :
    LET a == analysis[u]
    IN a.response = "ok" =>
         IF Len(a.output) > ChunkLimit
         THEN /\ a.status = "deleted"
              /\ a.i = Len(a.sent) * ChunkLimit
              /\ \A k \in 1..Len(a.sent) : a.sent[k] = Slice(a.output, (k - 1) * ChunkLimit, k * ChunkLimit)
         ELSE /\ a.status \in {"placeholder", "result", "apology"}
              /\ a.pc # "send"
              /\ a.sent = IF a.status = "result" THEN <<a.output>> ELSE <<>>
              /\ (a.pc = "returned" /\ ~a.logged) => a.status = "result"

\* C11 witness: the placeholder is deleted, the first part of a long output
\* was sent and the second is still to come
C11_Witness ==
  \E u \in Users :
    /\ analysis[u].pc = "send"
    /\ analysis[u].status = "deleted"
    /\ Len(analysis[u].sent) = 1

\* C12: with the marker in the text, the text up to and including the first
\* marker is kept, one fenced block follows it that holds exactly the trimmed
\* first line of what follows the marker (leading whitespace skipped), and
\* the text after that line follows the block unchanged and without a fence;
\* without the marker the wrapping step returns its input.
C12_WrapsFirstLineOnly ==
  \A u \in Users :
    LET a == analysis[u]
        x == Replace(Strip(a.raw), Fence, <<>>)
        y == a.output
    IN a.response = "ok" =>
         IF ~Contains(x, Marker) THEN y = x
         ELSE LET q == Find(x, Marker) + Len(Marker)
                  body == LStrip(SliceFrom(x, q))
                  n == Find(body, <<NL>>)
                  line == IF n < 0 THEN body ELSE Slice(body, 0, n)
                  rest == IF n < 0 THEN <<>> ELSE SliceFrom(body, n)
                  f1 == Find(y, Fence)
                  y2 == SliceFrom(y, f1 + Len(Fence))
                  f2 == Find(y2, Fence)
              IN /\ Slice(y, 0, q) = Slice(x, 0, q)
                 /\ f1 = q + 1
                 /\ f2 >= 0
                 /\ Slice(y2, 0, f2) = <<NL>> \o Strip(line) \o <<NL>>
                 /\ SliceFrom(y2, f2 + Len(Fence)) = rest
                 /\ ~Contains(rest, Fence)

\* C12 witness: the answer is the marker, a line and more text, as in
\* "CORRECTED TEXT:\nHello world\nmore text"
C12_Witness ==
  \E u \in Users :
    /\ analysis[u].response = "ok"
    /\ analysis[u].raw = Marker \o <<NL, "a", NL, "b">>
    /\ analysis[u].output = Marker \o <<NL>> \o Fence \o <<NL, "a", NL>> \o Fence \o <<NL, "b">>

\* C13: on an answer with neither the marker nor a fence, formatting the
\* formatted text again gives the formatted text.
C13_FormatIdempotent ==
  \A u \in Users :
    ( /\ analysis[u].response = "ok"
      /\ ~Contains(analysis[u].raw, Marker)
      /\ ~Contains(analysis[u].raw, Fence) ) =>
      FormatOutput(analysis[u].output) = analysis[u].output

\* C13 witness: an answer without marker and fence that formatting changed
C13_Witness ==
  \E u \in Users :
    /\ analysis[u].response = "ok"
    /\ ~Contains(analysis[u].raw, Marker)
    /\ ~Contains(analysis[u].raw, Fence)
    /\ analysis[u].output # <<>>
    /\ analysis[u].output # analysis[u].raw

\* C14: for an empty or whitespace-only message the model is never called.
C14_EmptyInputShortCircuits ==
  \A u \in Users :
    (analysis[u].pc # "idle" /\ Strip(analysis[u].user_text) = <<>>) =>
      /\ analysis[u].response = "none"
      /\ analysis[u].prompt = <<>>

\* C16 as stated: with before and after the two sides of the first marker and
\* the corrected line the trimmed first line of after, the result is before,
\* marker, newline, fence, newline, line, newline, fence, newline, remainder.
C16_Original ==
  \A u \in Users :
    LET a == analysis[u]
        x == Replace(Strip(a.raw), Fence, <<>>)
    IN (a.response = "ok" /\ Contains(x, Marker)) =>
         LET p == Find(x, Marker)
             before == Slice(x, 0, p)
             after == SliceFrom(x, p + Len(Marker))
             n == Find(after, <<NL>>)
             line == IF n < 0 THEN after ELSE Slice(after, 0, n)
             remainder == IF n < 0 THEN <<>> ELSE SliceFrom(after, n + 1)
         IN a.output = before \o Marker \o <<NL>> \o Fence \o <<NL>> \o Strip(line)
                         \o <<NL>> \o Fence \o <<NL>> \o remainder

\* C16 amended: after is the text behind the first marker without its leading
\* whitespace; the result is before, marker, newline, fence, newline, trimmed
\* first line of after, newline, fence, and then newline and remainder only
\* if after has a newline.
C16_Reassembly ==
  \A u \in Users :
    LET a == analysis[u]
        x == Replace(Strip(a.raw), Fence, <<>>)
    IN (a.response = "ok" /\ Contains(x, Marker)) =>
         LET p == Find(x, Marker)
             before == Slice(x, 0, p)
             after == LStrip(SliceFrom(x, p + Len(Marker)))
             n == Find(after, <<NL>>)
             line == IF n < 0 THEN after ELSE Slice(after, 0, n)
             tail == IF n < 0 THEN <<>> ELSE <<NL>> \o SliceFrom(after, n + 1)
         IN a.output = before \o Marker \o <<NL>> \o Fence \o <<NL>> \o Strip(line)
                         \o <<NL>> \o Fence \o tail

\* C16 witness: a marker with text before it and nothing after its line
C16_Witness ==
  \E u \in Users :
    /\ analysis[u].response = "ok"
    /\ analysis[u].raw = <<"a">> \o Marker \o <<" ", "a">>
    /\ analysis[u].output = <<"a">> \o Marker \o <<NL>> \o Fence \o <<NL, "a", NL>> \o Fence

\* C18: the formatted text holds no fence when the marker is absent and
\* exactly two, those of the block, when it is present.
C18_FenceCount ==
  \A u \in Users :
    LET a == analysis[u]
        y == a.output
        fences == {i \in 0..(Len(y) - Len(Fence)) : MatchAt(y, Fence, i)}
    IN a.response = "ok" =>
         Cardinality(fences) = IF Contains(y, Marker) THEN 2 ELSE 0

\* C18 witness: an answer with a run of four backticks and a marker
C18_Witness ==
  \E u \in Users :
    /\ analysis[u].response = "ok"
    /\ analysis[u].raw = Fence \o <<BT>> \o Marker \o <<"a">>
    /\ analysis[u].output = <<BT>> \o Marker \o <<NL>> \o Fence \o <<NL, "a", NL>> \o Fence


\* C15: an update handled for one user changes neither the stored mode of
\* another user nor the mode another user's analysis has read.
C15_ModePerUser ==
  [][\A u \in Users :
       UpdateFor(u) =>
         \A v \in Users \ {u} :
           /\ user_data'[v] = user_data[v]
           /\ analysis'[v].mode = analysis[v].mode]_vars

\* C15 witness: two users have set different modes and each has a message
\* being analysed under the user's own mode
C15_Witness ==
  /\ user_data["u1"] = DictSet(EmptyDict, "mode", "rewrite")
  /\ user_data["u2"] = DictSet(EmptyDict, "mode", "explain")
  /\ analysis["u1"].pc = "placeholder" /\ analysis["u1"].mode = "rewrite"
  /\ analysis["u2"].pc = "placeholder" /\ analysis["u2"].mode = "explain"

\* C17: the mode of an analysis is the one stored when its handler starts;
\* task and prompt are built from that mode, and no command of the user that
\* runs while the analysis waits changes the mode, task, prompt or output of
\* the analysis or anything else of it.
C17_ModeFixedAtStart ==
  [][\A u \in Users :
       /\ (analysis'[u].pc = "placeholder" /\ analysis[u].pc # "placeholder")
            => analysis'[u].mode = GetMode(user_data[u])
       /\ (analysis[u].pc = "placeholder" /\ analysis'[u].pc # "placeholder")
            => /\ analysis'[u].mode = analysis[u].mode
               /\ analysis'[u].task = TaskFor(analysis[u].mode)
               /\ analysis'[u].prompt
                    = BuildPrompt(TaskFor(analysis[u].mode), analysis[u].user_text)
       /\ analysis[u].pc \in {"send", "except"}
            => /\ analysis'[u].mode = analysis[u].mode
               /\ analysis'[u].task = analysis[u].task
               /\ analysis'[u].prompt = analysis[u].prompt
               /\ analysis'[u].output = analysis[u].output
       /\ user_data'[u] # user_data[u] => analysis'[u] = analysis[u]]_vars

\* C17 witness: /improve was handled while an analysis started in the rewrite
\* mode was delivering its parts; the analysis keeps the task of rewrite
C17_Witness ==
  \E u \in Users :
    /\ analysis[u].pc = "send"
    /\ Len(analysis[u].sent) = 1
    /\ analysis[u].mode = "rewrite"
    /\ analysis[u].task = "Rewrite this text clearly and naturally."
    /\ reply[u] = ModeSetText("improve")
    /\ user_data[u] = DictSet(EmptyDict, "mode", "improve")

====
